---- MODULE Spec2Model ----
(***************************************************************************)
(* Landsat-downloader: the tile-selection and download-orchestration       *)
(* pipeline of api/landsat_api.py (landsat_search, get_tile_list,          *)
(* download_landsat_images), modelled statement by statement.              *)
(*                                                                         *)
(* Strings that the code slices or rewrites (display ids, grid cell names) *)
(* are sequences of one-character strings, so that the slice [10:16] and   *)
(* replace("_", "0") are computed as the code computes them.               *)
(* Python's None is a separate tag (queryKind, "None" sessions, size 0).   *)
(***************************************************************************)
EXTENDS Integers, Sequences, FiniteSets, TLC

\* ------------------------------------------------------------------ bounds
\* longest scene list the catalog stub returns
MaxScenes == 3
\* number of consecutive runs on one storage directory
MaxRuns == 2
\* number of presses of the Download button
MaxPresses == 2

\* ------------------------------------------------------- program constants
\* dataset_id_list has three entries (landsat_api.py:182); id_num = len(...)
id_num == 3
\* SliderEntryFrame: slider.minimum and slider.maximum
minimum == 0
maximum == 100
\* file_size = None before the probes (landsat_api.py:184)
NoneSize == 0

\* ---------------------------------------------------------- input universe
\* display ids the catalog stub can return; characters 10..15 are the tile
IdA == <<"L","C","0","9","_","L","2","S","P","_","0","0","1","0","0","2","_","a">>
IdB == <<"L","C","0","9","_","L","2","S","P","_","0","0","1","0","0","2","_","b">>
IdC == <<"L","C","0","8","_","L","2","S","P","_","0","0","3","0","0","4","_","c">>
DisplayIds == {IdA, IdB, IdC}

\* the Landsat grid: cells with a Name and a geometry (a set of points)
satellite_grid ==
    << [Name |-> <<"0","0","1","_","0","2">>, geometry |-> {1}],
       [Name |-> <<"0","0","3","_","0","4">>, geometry |-> {2}],
       [Name |-> <<"1","2","3","_","0","4","5">>, geometry |-> {2}] >>
Points == {1, 2}

\* geometry files the user can pick in a file dialog, directories in the
\* directory dialog; "" is a cancelled dialog
GeomFiles == {"area1", "area2"}
Directories == {"dir1"}

\* slider positions the user can drag to, in thousandths of the slider's
\* range [0, 1]; integers and other texts the user can type into the entry
SliderValues == {5, 15, 1000}
EntryInts == {-5, 42, 150}
NonIntegerTexts == {<<>>, <<"a", "b">>, <<"3", ".", "7">>}

\* every sequence over S of length at most n
RECURSIVE SeqsUpTo(_, _)
SeqsUpTo(S, n) ==
    IF n = 0 THEN {<<>>}
    ELSE LET shorter == SeqsUpTo(S, n - 1)
         IN  shorter \cup {Append(s, x) : s \in {t \in shorter : Len(t) = n - 1}, x \in S}

Min(a, b) == IF a < b THEN a ELSE b

Range(s) == {s[i] : i \in 1..Len(s)}

\* -------------------------------------------------------- pure functions
\* a mutant of Replace_0: the underscore is removed, replace("_", "")
ReplaceRemoving(name) == SelectSeq(name, LAMBDA c : c # "_")

\* str.replace("_", "0")
Replace_0(name) == [i \in 1..Len(name) |-> IF name[i] = "_" THEN "0" ELSE name[i]]

\* geometry.intersects(single_polygon)
Intersects(g, poly) == g \cap poly # {}

\* get_tile_list: the transformed names of the intersecting cells, grid order
RECURSIVE get_tile_list_from(_, _, _)
get_tile_list_from(grid, single_polygon, i) ==
    IF i > Len(grid) THEN <<>>
    ELSE IF Intersects(grid[i].geometry, single_polygon)
         THEN <<Replace_0(grid[i].Name)>> \o get_tile_list_from(grid, single_polygon, i + 1)
         ELSE get_tile_list_from(grid, single_polygon, i + 1)

get_tile_list(grid, input_shapefile) == get_tile_list_from(grid, input_shapefile, 1)

\* display_id[10:16]: Python slice, clipped to the string's length
TileCode(display_id) ==
    IF Len(display_id) < 11 THEN <<>>
    ELSE SubSeq(display_id, 11, Min(16, Len(display_id)))

\* a mutant of Included: the verified ids are not consulted
IncludedIgnoringVerified(display_id, zs, image_tiles_set) ==
    \E z \in 1..Len(zs) : zs[z] = TileCode(display_id)

\* the two filters of the list comprehension building data_for_table
Included(display_id, zs, image_tiles_set) ==
    /\ \E z \in 1..Len(zs) : zs[z] = TileCode(display_id)
    /\ display_id \notin image_tiles_set

\* a mutant of BuildWorklist: the included ids are collected back to front
RECURSIVE BuildWorklistReversed(_, _, _)
BuildWorklistReversed(q, zs, image_tiles_set) ==
    IF q = <<>> THEN <<>>
    ELSE IF Included(Head(q), zs, image_tiles_set)
         THEN BuildWorklistReversed(Tail(q), zs, image_tiles_set) \o <<Head(q)>>
         ELSE BuildWorklistReversed(Tail(q), zs, image_tiles_set)

\* data_for_table / titles: the included display ids in scan order
RECURSIVE BuildWorklist(_, _, _)
BuildWorklist(q, zs, image_tiles_set) ==
    IF q = <<>> THEN <<>>
    ELSE IF Included(Head(q), zs, image_tiles_set)
         THEN <<Head(q)>> \o BuildWorklist(Tail(q), zs, image_tiles_set)
         ELSE BuildWorklist(Tail(q), zs, image_tiles_set)

\* index of the first element of s equal to x, 0 if there is none
RECURSIVE FirstIndexFrom(_, _, _)
FirstIndexFrom(s, x, i) ==
    IF i > Len(s) THEN 0
    ELSE IF s[i] = x THEN i ELSE FirstIndexFrom(s, x, i + 1)

FirstIndex(s, x) == FirstIndexFrom(s, x, 1)

\* s without its element at index i (s itself if i = 0)
RemoveAt(s, i) ==
    IF i = 0 THEN s
    ELSE [j \in 1..(Len(s) - 1) |-> IF j < i THEN s[j] ELSE s[j + 1]]

\* information_table.insert(row_num, 1, st) on the first row whose id is t
SetRow(table_ids, st_seq, t, st) ==
    LET r == FirstIndex(table_ids, t)
    IN  IF r = 0 THEN st_seq ELSE [st_seq EXCEPT ![r] = st]

\* archive_name = title + ".tar"
ArchiveName(t) == t \o <<".", "t", "a", "r">>

\* os.listdir(dir_downld): the directories and the archives of the storage
Listdir(ds, ts) == ds \cup {ArchiveName(t) : t \in ts}

\* a mutant of InStorage: the archive, not the directory, is looked for
InStorageByArchive(t, entries) == ArchiveName(t) \in entries

\* title in os.listdir(dir_downld)
InStorage(t, entries) == t \in entries

\* the size the download service reports for an entity under dataset id k
FileSize(k) == k

\* a mutant of AfterRemoveArchive: os.remove(download_location) is missing
ArchiveKept(ts, t) == ts

\* os.remove(download_location) after a complete extraction
AfterRemoveArchive(ts, t) == ts \ {t}

\* a mutant of CallerVerified: the extracted title is recorded in the
\* caller's list
CallerVerifiedAppended(verified, t) == verified \cup {t}

\* the caller's verified_tiles after an item is extracted: the run works on
\* image_tiles_set = set(verified_tiles) and on titles, never on the list
CallerVerified(verified, t) == verified

\* a mutant of RemoveStaleArchive: the stale archive is left in place
StaleArchiveKept(ts, t, entries) == ts

\* archive_name in os.listdir(dir_downld) => os.remove of that archive,
\* before the try block of the item
RemoveStaleArchive(ts, t, entries) ==
    IF ArchiveName(t) \in entries THEN ts \ {t} ELSE ts

\* a mutant of IterIndexAfterRemove: the loop restarts after the removal
IterIndexRestart(i) == 1

\* the list iterator's index is untouched by titles.remove(title)
IterIndexAfterRemove(i) == i

\* a mutant of AfterProbe: no break after a successful probe
AfterProbeNoBreak(ok, k) == IF k < id_num THEN "probe" ELSE "start_download"

\* where the probe loop goes after attempt k: break on success, else next id
AfterProbe(ok, k) == IF ok \/ k >= id_num THEN "start_download" ELSE "probe"

\* ---------------------------------------------------------------- state
VARIABLES
    pc,              \* position in download_landsat_images / landsat_search
    input_shapefile, \* the area of interest (unioned geometry: set of points)
    verified_tiles,  \* caller's verified display ids
    dirs,            \* storage: entries named display_id
    tars,            \* storage: entries named display_id + ".tar"
    partial,         \* <<display_id, run>>: directory left by a failed extraction
    run,             \* number of the current run on this storage
    api,             \* catalog session: "unset", "None", "open", "closed"
    searchOutcome,   \* what api.search did: "unset", "raised", "empty", "found"
    queryKind,       \* "unset", "None" or "list"
    query,           \* the scene list when queryKind = "list"
    zones,           \* result of get_tile_list
    data_for_table,  \* display ids of the table rows (the work list)
    status,          \* status shown in each table row
    hist,            \* per work item: the statuses set while processing it
    titles,          \* the mutable list iterated and returned
    pos,             \* work-list position of each element of titles
    idx,             \* list iterator: index of the next element (1-based)
    title,           \* loop variable
    cur,             \* work-list position of the item being processed
    ee,              \* download session: "unset", "None", "open", "closed"
    eeLogins,        \* number of EarthExplorer sessions created
    id_count,        \* probe attempt about to be made (1-based)
    file_size,       \* size from the probe, NoneSize when unknown
    probed,          \* outcomes of the probes made for the current item
    dlCount,         \* ee.download statements executed for the current item
    pbSize,          \* size handed to DownloadProgressBar for the item
    failed,          \* steps of the current item that raised
    wasInStorage,    \* title was in os.listdir when the item was reached
    staleRemoved,    \* os.remove of the stale archive ran for the current item
    result,          \* returned list
    outcome,         \* "running", "returned" or "raised"
    username,        \* LoginFrame.entry_name holds text
    password,        \* LoginFrame.entry_pass holds text
    shapefile,       \* ShapefileEntryFrame.shapefile ("None" or a geometry)
    geojsonfile,     \* ShapefileEntryFrame.geojsonfile ("None" or a geometry)
    save_dir,        \* master.save_dir: "unset" (no attribute), "" or a path
    loaded,          \* most recent successful open: kind, file, kind before
    threads,         \* one record per started button_callback thread
    progress,        \* SliderEntryFrame.progress
    entry,           \* text held by SliderEntryFrame.entry
    typed,           \* what the user meant by that text: an integer v or not
    submitted        \* last entry_callback: what was meant, progress before

vars == <<pc, input_shapefile, verified_tiles, dirs, tars, partial, run, api,
          searchOutcome, queryKind, query,
          zones, data_for_table, status, hist, titles, pos, idx, title, cur, ee,
          eeLogins, id_count, file_size, probed, dlCount, pbSize, failed,
          wasInStorage, staleRemoved, result, outcome, username, password,
          shapefile, geojsonfile, loaded, save_dir, threads, progress, entry,
          typed, submitted>>

inputVars == <<input_shapefile, verified_tiles>>
searchVars == <<api, searchOutcome, queryKind, query>>
tableVars == <<data_for_table, status, hist>>
iterVars == <<titles, pos, idx, title, cur>>
itemVars == <<id_count, file_size, probed, dlCount, pbSize, failed, wasInStorage,
              staleRemoved>>
storageVars == <<dirs, tars>>
runVars == <<partial, run>>
sessionVars == <<ee, eeLogins>>
endVars == <<result, outcome>>
sliderVars == <<progress, entry, typed, submitted>>
guiVars == <<username, password, shapefile, geojsonfile, loaded, save_dir,
             threads, progress, entry, typed, submitted>>
pipelineVars == <<pc, input_shapefile, verified_tiles, dirs, tars, partial, run,
                  api, searchOutcome, queryKind, query, zones, data_for_table,
                  status, hist, titles, pos, idx, title, cur, ee, eeLogins,
                  id_count, file_size, probed, dlCount, pbSize, failed,
                  wasInStorage, staleRemoved, result, outcome>>

Init ==
    /\ pc = "landsat_explorer_login"
    /\ input_shapefile \in SUBSET Points
    /\ verified_tiles \in SUBSET {IdA, IdB}
    /\ dirs \in SUBSET {IdA, IdC}
    /\ tars \in SUBSET {IdA}
    /\ partial = {}
    /\ run = 1
    /\ api = "unset"
    /\ searchOutcome = "unset"
    /\ queryKind = "unset"
    /\ query = <<>>
    /\ zones = <<>>
    /\ data_for_table = <<>>
    /\ status = <<>>
    /\ hist = <<>>
    /\ titles = <<>>
    /\ pos = <<>>
    /\ idx = 1
    /\ title = <<>>
    /\ cur = 0
    /\ ee = "unset"
    /\ eeLogins = 0
    /\ id_count = 1
    /\ file_size = NoneSize
    /\ probed = <<>>
    /\ dlCount = 0
    /\ pbSize = NoneSize
    /\ failed = {}
    /\ wasInStorage = FALSE
    /\ staleRemoved = FALSE
    /\ result = <<>>
    /\ outcome = "running"
    /\ username = FALSE
    /\ password = FALSE
    /\ shapefile = "None"
    /\ geojsonfile = "None"
    /\ loaded = [kind |-> "none", file |-> "None", prev |-> "none"]
    /\ save_dir = "unset"
    /\ threads = <<>>
    /\ progress = 0
    /\ entry = <<>>
    /\ typed = [int |-> FALSE, v |-> 0]
    /\ submitted = [done |-> FALSE, int |-> FALSE, v |-> 0, before |-> 0]

\* ------------------------------------------------------- landsat_search
\* api = landsat_explorer_login(...): an API object, or None when API() raises
LandsatExplorerLogin ==
    /\ pc = "landsat_explorer_login"
    /\ \E ok \in BOOLEAN : api' = IF ok THEN "open" ELSE "None"
    /\ pc' = "search"
    /\ UNCHANGED <<guiVars, runVars, inputVars, storageVars, searchOutcome, queryKind,
                   query, zones, tableVars, iterVars, sessionVars, itemVars,
                   endVars>>

\* api.search(...) raises (always when api is None): except -> return None
SearchRaises ==
    /\ pc = "search"
    /\ queryKind' = "None"
    /\ searchOutcome' = "raised"
    /\ pc' = "get_tile_list"
    /\ UNCHANGED <<guiVars, runVars, inputVars, storageVars, api, query, zones, tableVars,
                   iterVars, sessionVars, itemVars, endVars>>

\* api.search(...) returns; api.logout(); an empty result falls off the end
\* of the function (None), a non-empty one is returned
SearchReturns ==
    /\ pc = "search"
    /\ api = "open"
    /\ \E scenes_landsat \in SeqsUpTo(DisplayIds, MaxScenes) :
          /\ api' = "closed"
          /\ searchOutcome' = IF Len(scenes_landsat) = 0 THEN "empty" ELSE "found"
          /\ IF Len(scenes_landsat) = 0
             THEN queryKind' = "None" /\ query' = <<>>
             ELSE queryKind' = "list" /\ query' = scenes_landsat
    /\ pc' = "get_tile_list"
    /\ UNCHANGED <<guiVars, runVars, inputVars, storageVars, zones, tableVars, iterVars,
                   sessionVars, itemVars, endVars>>

\* ---------------------------------------------- download_landsat_images
\* zones = get_tile_list(satellite_grid, input_shapefile)
GetTileList ==
    /\ pc = "get_tile_list"
    /\ zones' = get_tile_list(satellite_grid, input_shapefile)
    /\ pc' = "filter"
    /\ UNCHANGED <<guiVars, runVars, inputVars, storageVars, searchVars, tableVars, iterVars,
                   sessionVars, itemVars, endVars>>

\* iterating query = None raises TypeError out of download_landsat_images
FilterRaises ==
    /\ pc = "filter"
    /\ queryKind = "None"
    /\ pc' = "end"
    /\ outcome' = "raised"
    /\ UNCHANGED <<guiVars, runVars, inputVars, storageVars, searchVars, zones, tableVars,
                   iterVars, sessionVars, itemVars, result>>

\* data_for_table, titles; the empty work list returns at once
Filter ==
    /\ pc = "filter"
    /\ queryKind = "list"
    /\ LET wl == BuildWorklist(query, zones, verified_tiles)
       IN  /\ data_for_table' = wl
           /\ status' = [r \in 1..Len(wl) |-> "needs_download"]
           /\ hist' = [r \in 1..Len(wl) |-> <<>>]
           /\ titles' = wl
           /\ pos' = [r \in 1..Len(wl) |-> r]
           /\ IF wl = <<>>
              THEN pc' = "end" /\ outcome' = "returned" /\ result' = wl
              ELSE pc' = "earth_explorer_login" /\ UNCHANGED endVars
    /\ UNCHANGED <<guiVars, runVars, inputVars, storageVars, searchVars, zones, idx, title, cur,
                   sessionVars, itemVars>>

\* ee = earth_explorer_login(...): a session, or None when EarthExplorer() raises
EarthExplorerLogin ==
    /\ pc = "earth_explorer_login"
    /\ \E ok \in BOOLEAN :
          IF ok THEN ee' = "open" /\ eeLogins' = eeLogins + 1
                ELSE ee' = "None" /\ UNCHANGED eeLogins
    /\ pc' = "loop"
    /\ UNCHANGED <<guiVars, runVars, inputVars, storageVars, searchVars, zones, tableVars,
                   iterVars, itemVars, endVars>>

\* for title in titles: exhausted -> return titles
LoopEnd ==
    /\ pc = "loop"
    /\ idx > Len(titles)
    /\ pc' = "end"
    /\ outcome' = "returned"
    /\ result' = titles
    /\ UNCHANGED <<guiVars, runVars, inputVars, storageVars, searchVars, zones, tableVars,
                   iterVars, sessionVars, itemVars>>

\* next title, found in os.listdir(dir_downld): row set to "in storage"
ItemInStorage ==
    /\ pc = "loop"
    /\ idx <= Len(titles)
    /\ InStorage(titles[idx], Listdir(dirs, tars))
    /\ title' = titles[idx]
    /\ cur' = pos[idx]
    /\ idx' = idx + 1
    /\ status' = SetRow(data_for_table, status, titles[idx], "in_storage")
    /\ hist' = [hist EXCEPT ![pos[idx]] = Append(@, "in_storage")]
    /\ wasInStorage' = (titles[idx] \in Listdir(dirs, tars))
    /\ staleRemoved' = FALSE
    /\ id_count' = 1 /\ file_size' = NoneSize /\ probed' = <<>>
    /\ dlCount' = 0 /\ pbSize' = NoneSize /\ failed' = {}
    /\ pc' = "loop"
    /\ UNCHANGED <<guiVars, runVars, inputVars, storageVars, searchVars, zones, data_for_table,
                   titles, pos, sessionVars, endVars>>

\* next title, not in storage: a stale archive is removed, probing starts
ItemBegin ==
    /\ pc = "loop"
    /\ idx <= Len(titles)
    /\ ~InStorage(titles[idx], Listdir(dirs, tars))
    /\ title' = titles[idx]
    /\ cur' = pos[idx]
    /\ idx' = idx + 1
    /\ tars' = RemoveStaleArchive(tars, titles[idx], Listdir(dirs, tars))
    /\ staleRemoved' = (ArchiveName(titles[idx]) \in Listdir(dirs, tars))
    /\ wasInStorage' = (titles[idx] \in Listdir(dirs, tars))
    /\ id_count' = 1 /\ file_size' = NoneSize /\ probed' = <<>>
    /\ dlCount' = 0 /\ pbSize' = NoneSize /\ failed' = {}
    /\ pc' = "probe"
    /\ UNCHANGED <<guiVars, runVars, inputVars, dirs, searchVars, zones, tableVars, titles, pos,
                   sessionVars, endVars>>

\* ee._get_fileinfo for dataset id_count: the size, or an exception that the
\* bare except swallows (always so when ee is None)
Probe ==
    /\ pc = "probe"
    /\ \E ok \in BOOLEAN :
          /\ ok => ee = "open"
          /\ probed' = Append(probed, ok)
          /\ file_size' = IF ok THEN FileSize(id_count) ELSE file_size
          /\ pc' = AfterProbe(ok, id_count)
          /\ id_count' = IF AfterProbe(ok, id_count) = "probe"
                         THEN id_count + 1 ELSE id_count
    /\ UNCHANGED <<guiVars, runVars, inputVars, storageVars, searchVars, zones, tableVars,
                   iterVars, sessionVars, dlCount, pbSize, failed,
                   wasInStorage, staleRemoved, endVars>>

\* final_file_size, the row set to "downloading", DownloadProgressBar(...)
StartDownload ==
    /\ pc = "start_download"
    /\ status' = SetRow(data_for_table, status, title, "downloading")
    /\ hist' = [hist EXCEPT ![cur] = Append(@, "downloading")]
    /\ pbSize' = file_size
    /\ pc' = "download"
    /\ UNCHANGED <<guiVars, runVars, inputVars, storageVars, searchVars, zones, data_for_table,
                   iterVars, sessionVars, id_count, file_size, probed, dlCount,
                   failed, wasInStorage, staleRemoved, endVars>>

\* ee.download(...) returns: the archive is in storage, row "downloaded"
DownloadOk ==
    /\ pc = "download"
    /\ ee = "open"
    /\ dlCount' = dlCount + 1
    /\ tars' = tars \cup {title}
    /\ status' = SetRow(data_for_table, status, title, "downloaded")
    /\ hist' = [hist EXCEPT ![cur] = Append(@, "downloaded")]
    /\ pc' = "extract"
    /\ UNCHANGED <<guiVars, runVars, inputVars, dirs, searchVars, zones, data_for_table,
                   iterVars, sessionVars, id_count, file_size, probed, pbSize,
                   failed, wasInStorage, staleRemoved, endVars>>

\* ee.download(...) raises (always when ee is None); a partial archive may stay
DownloadRaises ==
    /\ pc = "download"
    /\ dlCount' = dlCount + 1
    /\ \E part \in BOOLEAN :
          /\ part => ee = "open"
          /\ tars' = IF part THEN tars \cup {title} ELSE tars
    /\ failed' = failed \cup {"download"}
    /\ pc' = "except"
    /\ UNCHANGED <<guiVars, runVars, inputVars, dirs, searchVars, zones, tableVars, iterVars,
                   sessionVars, id_count, file_size, probed, pbSize,
                   wasInStorage, staleRemoved, endVars>>

\* tarfile.open + extractall + os.remove, row "extracted"
ExtractOk ==
    /\ pc = "extract"
    /\ dirs' = dirs \cup {title}
    /\ tars' = AfterRemoveArchive(tars, title)
    /\ status' = SetRow(data_for_table, status, title, "extracted")
    /\ hist' = [hist EXCEPT ![cur] = Append(@, "extracted")]
    /\ verified_tiles' = CallerVerified(verified_tiles, title)
    /\ pc' = "loop"
    /\ UNCHANGED <<guiVars, runVars, input_shapefile, searchVars, zones, data_for_table, iterVars,
                   sessionVars, itemVars, endVars>>

\* tarfile.open or extractall raises; extractall may already have created
\* the item's directory; the archive is not removed
ExtractRaises ==
    /\ pc = "extract"
    /\ \E part \in BOOLEAN :
          /\ dirs' = IF part THEN dirs \cup {title} ELSE dirs
          /\ partial' = IF part THEN partial \cup {<<title, run>>} ELSE partial
    /\ failed' = failed \cup {"extract"}
    /\ pc' = "except"
    /\ UNCHANGED <<guiVars, run, inputVars, tars, searchVars, zones, tableVars, iterVars,
                   sessionVars, id_count, file_size, probed, dlCount, pbSize,
                   wasInStorage, staleRemoved, endVars>>

\* except Exception: titles.remove(title), the row set to "error"
ExceptHandler ==
    /\ pc = "except"
    /\ LET i == FirstIndex(titles, title)
       IN  /\ titles' = RemoveAt(titles, i)
           /\ pos' = RemoveAt(pos, i)
    /\ idx' = IterIndexAfterRemove(idx)
    /\ status' = SetRow(data_for_table, status, title, "error")
    /\ hist' = [hist EXCEPT ![cur] = Append(@, "error")]
    /\ pc' = "loop"
    /\ UNCHANGED <<guiVars, runVars, inputVars, storageVars, searchVars, zones, data_for_table,
                   title, cur, sessionVars, itemVars, endVars>>

Next ==
    \/ LandsatExplorerLogin
    \/ SearchRaises
    \/ SearchReturns
    \/ GetTileList
    \/ FilterRaises
    \/ Filter
    \/ EarthExplorerLogin
    \/ LoopEnd
    \/ ItemInStorage
    \/ ItemBegin
    \/ Probe
    \/ StartDownload
    \/ DownloadOk
    \/ DownloadRaises
    \/ ExtractOk
    \/ ExtractRaises
    \/ ExceptHandler

Spec == Init /\ [][Next]_vars

\* ------------------------------------------- consecutive runs, one storage
\* a first run on an empty storage directory
InitRuns ==
    /\ Init
    /\ input_shapefile \in {{1}, {1, 2}}
    /\ verified_tiles \in SUBSET {IdB}
    /\ dirs = {}
    /\ tars = {}

\* download_landsat_images is called again with the same arguments: the
\* storage directory and the caller's list are what the last run left
NewRun ==
    /\ pc = "end"
    /\ run < MaxRuns
    /\ run' = run + 1
    /\ pc' = "landsat_explorer_login"
    /\ api' = "unset" /\ searchOutcome' = "unset"
    /\ queryKind' = "unset" /\ query' = <<>>
    /\ zones' = <<>>
    /\ data_for_table' = <<>> /\ status' = <<>> /\ hist' = <<>>
    /\ titles' = <<>> /\ pos' = <<>> /\ idx' = 1 /\ title' = <<>> /\ cur' = 0
    /\ ee' = "unset" /\ eeLogins' = 0
    /\ id_count' = 1 /\ file_size' = NoneSize /\ probed' = <<>>
    /\ dlCount' = 0 /\ pbSize' = NoneSize /\ failed' = {}
    /\ wasInStorage' = FALSE
    /\ staleRemoved' = FALSE
    /\ result' = <<>> /\ outcome' = "running"
    /\ UNCHANGED <<guiVars, inputVars, storageVars, partial>>

NextRuns ==
    \/ Next
    \/ NewRun

SpecRuns == InitRuns /\ [][NextRuns]_vars

\* ------------------------------------------------------------ gui.py
\* a mutant of OtherCleared: the other geometry stays loaded
OtherKept(other) == other

\* open_shapefile sets geojsonfile = None, open_geojsonfile sets
\* shapefile = None: the other stored geometry after a successful open
OtherCleared(other) == "None"

\* ShapefileEntryFrame.get_shapefile, "raise" for the ValueError
get_shapefile(shp, gj) ==
    IF shp = "None" /\ gj = "None" THEN "raise"
    ELSE IF shp # "None" THEN shp ELSE gj

\* a mutant of ButtonChecks: the download directory is not tested
ButtonChecksNoDirectory(user, pass, shp, gj, sd) ==
    IF ~user THEN "done"
    ELSE IF ~pass THEN "done"
    ELSE IF get_shapefile(shp, gj) \in {"raise", "None"} THEN "done"
    ELSE "search"

\* the checks of button_callback before the pipeline is called: "search"
\* when download_landsat_images is entered, "done" when a check raised
\* (ValueError, or AttributeError for a save_dir that was never set)
ButtonChecks(user, pass, shp, gj, sd) ==
    IF ~user THEN "done"
    ELSE IF ~pass THEN "done"
    ELSE IF get_shapefile(shp, gj) \in {"raise", "None"} THEN "done"
    ELSE IF sd = "unset" THEN "done"
    ELSE IF sd = "" THEN "done"
    ELSE "search"

\* the decimal digits
Digits == <<"0", "1", "2", "3", "4", "5", "6", "7", "8", "9">>
IsDigit(c) == \E d \in 0..9 : Digits[d + 1] = c
DigitOf(c) == CHOOSE d \in 0..9 : Digits[d + 1] = c

\* the text a user types for an integer: its decimal numeral
RECURSIVE NatText(_)
NatText(n) ==
    IF n < 10 THEN <<Digits[n + 1]>>
    ELSE NatText(n \div 10) \o <<Digits[(n % 10) + 1]>>

ToText(v) == IF v < 0 THEN <<"-">> \o NatText(-v) ELSE NatText(v)

\* the value of a digit string read from the left, acc so far
RECURSIVE DigitsValue(_, _)
DigitsValue(ds, acc) ==
    IF ds = <<>> THEN acc
    ELSE DigitsValue(Tail(ds), acc * 10 + DigitOf(Head(ds)))

\* str.strip of blanks, as int() does before parsing
RECURSIVE Strip(_)
Strip(text) ==
    IF text = <<>> THEN text
    ELSE IF Head(text) = " " THEN Strip(Tail(text))
    ELSE IF text[Len(text)] = " " THEN Strip(SubSeq(text, 1, Len(text) - 1))
    ELSE text

\* int(text): an optional sign and at least one digit, else ValueError
int(text) ==
    LET t == Strip(text)
        signed == t # <<>> /\ Head(t) \in {"-", "+"}
        ds == IF signed THEN Tail(t) ELSE t
        ok == ds # <<>> /\ \A k \in 1..Len(ds) : IsDigit(ds[k])
    IN  [ok |-> ok,
         value |-> IF ~ok THEN 0
                   ELSE IF signed /\ Head(t) = "-" THEN -DigitsValue(ds, 0)
                   ELSE DigitsValue(ds, 0)]

\* Python's round() of n / 10: to the nearest integer, ties to the even one
round(n) ==
    LET q == n \div 10
        r == n % 10
    IN  IF r < 5 THEN q
        ELSE IF r > 5 THEN q + 1
        ELSE IF q % 2 = 0 THEN q ELSE q + 1

\* SliderEntryFrame.slider_callback: the new progress for a slider value
\* given in thousandths, round(float(value) * 100)
slider_callback(value) == round(value)

\* a mutant of Clamp: the entry's value is used as typed
ClampNone(value) == value

\* entry_callback's bounds: slider.minimum and slider.maximum
Clamp(value) ==
    IF value < minimum THEN minimum
    ELSE IF value > maximum THEN maximum
    ELSE value

GuiInit ==
    /\ Init
    /\ input_shapefile = {}
    /\ verified_tiles = {}
    /\ dirs = {}
    /\ tars = {}

\* the user edits the login entries
EditLogin ==
    /\ \E u, p \in BOOLEAN : username' = u /\ password' = p
    /\ UNCHANGED <<shapefile, geojsonfile, loaded, save_dir, threads, sliderVars,
                   pipelineVars>>

\* ShapefileEntryFrame.open_shapefile: nothing changes on a cancelled dialog
open_shapefile ==
    /\ \E file_path \in GeomFiles \cup {""} :
          IF file_path # ""
          THEN /\ shapefile' = file_path
               /\ geojsonfile' = OtherCleared(geojsonfile)
               /\ loaded' = [kind |-> "shp", file |-> file_path,
                              prev |-> loaded.kind]
          ELSE UNCHANGED <<shapefile, geojsonfile, loaded>>
    /\ UNCHANGED <<username, password, save_dir, threads, sliderVars,
                   pipelineVars>>

\* ShapefileEntryFrame.open_geojsonfile
open_geojsonfile ==
    /\ \E file_path \in GeomFiles \cup {""} :
          IF file_path # ""
          THEN /\ geojsonfile' = file_path
               /\ shapefile' = OtherCleared(shapefile)
               /\ loaded' = [kind |-> "geojson", file |-> file_path,
                              prev |-> loaded.kind]
          ELSE UNCHANGED <<shapefile, geojsonfile, loaded>>
    /\ UNCHANGED <<username, password, save_dir, threads, sliderVars,
                   pipelineVars>>

\* PathDownloadFrame.directory: save_dir takes the dialog's answer, also ""
directory ==
    /\ \E files_save \in Directories \cup {""} : save_dir' = files_save
    /\ UNCHANGED <<username, password, shapefile, geojsonfile, loaded,
                   threads, sliderVars, pipelineVars>>

\* the user drags the slider: CTkSlider calls slider_callback(value)
MoveSlider ==
    /\ \E value \in SliderValues : progress' = slider_callback(value)
    /\ submitted' = [done |-> FALSE, int |-> FALSE, v |-> 0, before |-> 0]
    /\ UNCHANGED <<entry, typed, username, password, shapefile, geojsonfile,
                   loaded, save_dir, threads, pipelineVars>>

\* the user types into the entry: the numeral of an integer, or other text
TypeEntry ==
    /\ \/ \E v \in EntryInts :
             entry' = ToText(v) /\ typed' = [int |-> TRUE, v |-> v]
       \/ \E t \in NonIntegerTexts :
             entry' = t /\ typed' = [int |-> FALSE, v |-> 0]
    /\ submitted' = [done |-> FALSE, int |-> FALSE, v |-> 0, before |-> 0]
    /\ UNCHANGED <<progress, username, password, shapefile, geojsonfile,
                   loaded, save_dir, threads, pipelineVars>>

\* SliderEntryFrame.entry_callback on <Return>: value / 100 is value * 10
\* thousandths; a ValueError of int() is passed over
entry_callback ==
    /\ LET parsed == int(entry)
       IN  progress' = IF parsed.ok
                       THEN slider_callback(Clamp(parsed.value) * 10)
                       ELSE progress
    /\ submitted' = [done |-> TRUE, int |-> typed.int, v |-> typed.v,
                     before |-> progress]
    /\ UNCHANGED <<entry, typed, username, password, shapefile, geojsonfile,
                   loaded, save_dir, threads, pipelineVars>>

\* button_download's command: a new daemon thread runs button_callback
PressDownload ==
    /\ Len(threads) < MaxPresses
    /\ threads' = Append(threads, [pc |-> "checks", dir |-> "", cloud |-> -1])
    /\ UNCHANGED <<username, password, shapefile, geojsonfile, loaded,
                   save_dir, sliderVars, pipelineVars>>

\* button_callback up to the call of download_landsat_images
ButtonCallback(i) ==
    /\ threads[i].pc = "checks"
    /\ LET to == ButtonChecks(username, password, shapefile, geojsonfile, save_dir)
       IN  threads' = [threads EXCEPT ![i] =
                          [pc |-> to,
                           dir |-> IF to = "search" THEN save_dir ELSE "",
                           cloud |-> IF to = "search" THEN progress ELSE -1]]
    /\ UNCHANGED <<username, password, shapefile, geojsonfile, loaded,
                   save_dir, sliderVars, pipelineVars>>

\* download_landsat_images in thread i reaches its loop over the titles,
\* where the storage directory is listed, written and cleaned
PipelineLoop(i) ==
    /\ threads[i].pc = "search"
    /\ threads' = [threads EXCEPT ![i].pc = "loop"]
    /\ UNCHANGED <<username, password, shapefile, geojsonfile, loaded,
                   save_dir, sliderVars, pipelineVars>>

\* download_landsat_images in thread i returns or raises; button_callback ends
PipelineEnd(i) ==
    /\ threads[i].pc \in {"search", "loop"}
    /\ threads' = [threads EXCEPT ![i].pc = "done"]
    /\ UNCHANGED <<username, password, shapefile, geojsonfile, loaded,
                   save_dir, sliderVars, pipelineVars>>

ButtonCallbackStep == \E i \in 1..Len(threads) : ButtonCallback(i)
PipelineLoopStep == \E i \in 1..Len(threads) : PipelineLoop(i)
PipelineEndStep == \E i \in 1..Len(threads) : PipelineEnd(i)

GuiNext ==
    \/ EditLogin
    \/ open_shapefile
    \/ open_geojsonfile
    \/ directory
    \/ PressDownload
    \/ ButtonCallbackStep
    \/ PipelineLoopStep
    \/ PipelineEndStep

SpecGui == GuiInit /\ [][GuiNext]_vars

\* the cloud-cover widgets and the presses that read them
CloudNext ==
    \/ MoveSlider
    \/ TypeEntry
    \/ entry_callback
    \/ EditLogin
    \/ open_shapefile
    \/ directory
    \/ PressDownload
    \/ ButtonCallbackStep

SpecCloud == GuiInit /\ [][CloudNext]_vars

\* ---------------------------------------------------------- vocabulary
Terminal == {"in_storage", "extracted", "error"}
Success == {"in_storage", "downloaded", "extracted"}

\* the run returned a list after working through a non-empty work list
ReturnedAfterLoop ==
    pc = "end" /\ outcome = "returned" /\ data_for_table # <<>>

\* last status set for the work item at position p
FinalStatus(p) ==
    IF hist[p] = <<>> THEN "needs_download" ELSE hist[p][Len(hist[p])]

\* the work list has been built from a scene list
WorklistBuilt ==
    queryKind = "list" /\ pc \notin {"landsat_explorer_login", "search",
                                     "get_tile_list", "filter"}

\* characters 10..15 of a display id of at least 16 characters
Chars10to15(d) == [k \in 1..6 |-> d[10 + k]]

\* the current item took the download path and its processing is over
ItemDone == pc = "loop" /\ cur > 0 /\ ~wasInStorage

\* status changes a table row may show
AllowedChange(a, b) ==
    \/ a = b
    \/ a = "needs_download" /\ b \in {"downloading", "in_storage", "error"}
    \/ a = "downloading" /\ b \in {"downloaded", "error"}
    \/ a = "downloaded" /\ b \in {"extracted", "error"}

\* ---------------------------------------------------------------- claims

\* C1: when download_landsat_images returns, every item of the work list has
\* been attempted: it has left needs_download and reached in_storage,
\* extracted or error, whatever happened to earlier items.
C1_EveryItemAttempted ==
    ReturnedAfterLoop =>
        \A p \in 1..Len(data_for_table) : FinalStatus(p) \in Terminal

\* C2: the list returned after a non-empty work list is exactly the display
\* ids of the items whose final status is in_storage, downloaded or extracted.
C2_ReturnedAreTheSuccesses ==
    ReturnedAfterLoop =>
        Range(result) =
            {data_for_table[p] : p \in {q \in 1..Len(data_for_table) :
                                            FinalStatus(q) \in Success}}

\* C3: a scene is in the work list iff characters 10..15 of its display id
\* are one of the intersecting cells and its display id is not verified;
\* every work item comes from the scene list.
C3_InclusionRule ==
    WorklistBuilt =>
        /\ \A i \in 1..Len(query) :
              (query[i] \in Range(data_for_table))
                  <=> (/\ Len(query[i]) >= 16
                       /\ Chars10to15(query[i]) \in Range(zones)
                       /\ query[i] \notin verified_tiles)
        /\ Range(data_for_table) \subseteq Range(query)

\* C3 witness: a built work list that kept a scene, dropped a verified scene
\* of an intersecting tile and dropped a scene of a tile outside the area
C3_Witness ==
    /\ WorklistBuilt
    /\ data_for_table # <<>>
    /\ \E i, j \in 1..Len(query) :
          /\ query[i] \in verified_tiles
          /\ TileCode(query[i]) \in Range(zones)
          /\ TileCode(query[j]) \notin Range(zones)

\* C4: an item whose display id is in the storage directory when it is
\* reached goes straight from needs_download to in_storage, no probe and no
\* download is made for it, and it is in the returned list.
C4_InStorageSkipsNetwork ==
    /\ (wasInStorage /\ cur > 0) =>
          /\ hist[cur] = <<"in_storage">>
          /\ probed = <<>>
          /\ dlCount = 0
          /\ pc \in {"loop", "end"}
    /\ ReturnedAfterLoop =>
          \A p \in 1..Len(data_for_table) :
              FinalStatus(p) = "in_storage" => data_for_table[p] \in Range(result)

\* C4 witness: the run returned an item found in storage, after another item
\* had been downloaded
C4_Witness ==
    /\ ReturnedAfterLoop
    /\ wasInStorage
    /\ cur >= 2
    /\ title \in Range(result)
    /\ \E p \in 1..Len(data_for_table) : FinalStatus(p) = "extracted"

\* C5: a run whose catalog search succeeded and in which no scene passes the
\* filter returns the empty list and never logs in to the download service.
C5_EmptyWorklistReturnsEmpty ==
    (pc = "end" /\ api = "closed" /\ data_for_table = <<>>) =>
        /\ outcome = "returned"
        /\ result = <<>>
        /\ ee = "unset"
        /\ eeLogins = 0

\* C6: for an item not in storage the probes go through the dataset ids in
\* order and stop at the first success; the size used is that success's size,
\* or None when all three failed; the download is then attempted exactly
\* once; failed probes alone never lead to the error status.
C6_ProbeFallback ==
    /\ Len(probed) <= id_num
    /\ \A k \in 1..(Len(probed) - 1) : ~probed[k]
    /\ pc \in {"start_download", "download", "extract", "except"} \/ ItemDone =>
          /\ probed # <<>>
          /\ probed[Len(probed)] \/ Len(probed) = id_num
          /\ file_size = IF probed[Len(probed)] THEN FileSize(Len(probed))
                                                ELSE NoneSize
    /\ pc \in {"download", "extract", "except"} \/ ItemDone =>
          pbSize = file_size
    /\ dlCount <= 1
    /\ pc \in {"probe", "start_download", "download"} => dlCount = 0
    /\ pc \in {"extract", "except"} \/ ItemDone => dlCount = 1
    /\ pc = "except" => failed # {}
    /\ (cur > 0 /\ failed = {}) =>
          \A n \in 1..Len(hist[cur]) : hist[cur][n] # "error"

\* C6 witness: the probes of A and B failed, C answered, the download was
\* made with C's size
C6_Witness ==
    /\ pc = "extract"
    /\ probed = <<FALSE, FALSE, TRUE>>
    /\ pbSize = FileSize(3)
    /\ dlCount = 1

\* C7: a table row changes only along needs_download -> downloading ->
\* downloaded -> extracted, needs_download -> in_storage, or from a
\* non-terminal status to error; a terminal row never changes again.
C7_RowTransitions ==
    [][Len(status') = Len(status) =>
          \A r \in 1..Len(status) : AllowedChange(status[r], status'[r])]_vars

\* C8: items are processed in work-list order, one after another: the
\* position of the item being processed never decreases, and each new item
\* taken from the list lies after the previous one.
C8_SequentialOrder ==
    [][/\ cur' >= cur
       /\ (ItemBegin \/ ItemInStorage) => cur' > cur]_vars

\* C8 witness: the third item is being processed after an earlier one failed
C8_Witness ==
    /\ cur = 3
    /\ pc = "download"
    /\ \E p \in 1..2 : FinalStatus(p) = "error"

\* C9: once landsat_search is over, no catalog session that it opened is
\* still logged in, also when the search raised.
C9_CatalogLogout ==
    pc \notin {"landsat_explorer_login", "search"} => api # "open"

\* C10: a run over a non-empty work list that logged in to the download
\* service did so exactly once and has closed that session when it returns.
C10_SessionClosed ==
    (ReturnedAfterLoop /\ ee # "None") =>
        /\ eeLogins = 1
        /\ ee = "closed"

\* "error" was set for some work item of the run
SomeItemError ==
    \E p \in 1..Len(hist) : \E n \in 1..Len(hist[p]) : hist[p][n] = "error"

\* C11: when the login to the download service is rejected the run stops at
\* once: no probe, download or extraction, no item marked error, and the
\* failure reaches the caller instead of a returned list.
C11_AuthRejectedAborts ==
    ee = "None" =>
        /\ probed = <<>>
        /\ dlCount = 0
        /\ ~SomeItemError
        /\ pc = "end" => outcome = "raised"

\* C12: when the catalog login or the search fails, nothing later in the
\* pipeline runs (no grid intersection, no work list, no login to the
\* download service, no probe, no download) and the failure reaches the
\* caller instead of a returned list.
C12_CatalogFailureAborts ==
    searchOutcome = "raised" =>
        /\ pc \in {"get_tile_list", "end"}
        /\ zones = <<>>
        /\ data_for_table = <<>>
        /\ ee = "unset"
        /\ probed = <<>> /\ dlCount = 0
        /\ pc = "end" => outcome = "raised"

\* C13: a search that finds no scene hands the caller a value different from
\* the None of a failed query, and the run then ends normally with the empty
\* list.
C13_EmptyResultDistinct ==
    searchOutcome = "empty" =>
        /\ queryKind # "None"
        /\ pc = "end" => (outcome = "returned" /\ result = <<>>)

\* indices of the scenes that pass the two filters
IncludedIdx ==
    {i \in 1..Len(query) : /\ Len(query[i]) >= 16
                           /\ Chars10to15(query[i]) \in Range(zones)
                           /\ query[i] \notin verified_tiles}

\* C15: the work list keeps the scan order of the scene list: the k-th
\* included scene is the k-th work item; building it again from the same
\* inputs gives the same list.
C15_ScanOrder ==
    WorklistBuilt =>
        /\ Len(data_for_table) = Cardinality(IncludedIdx)
        /\ \A i \in IncludedIdx :
              data_for_table[Cardinality({j \in IncludedIdx : j <= i})] = query[i]
        /\ BuildWorklist(query, zones, verified_tiles) = data_for_table

\* C15 witness: two different scenes kept in order while another was dropped
C15_Witness ==
    /\ WorklistBuilt
    /\ Len(data_for_table) = 2
    /\ data_for_table[1] # data_for_table[2]
    /\ Len(query) = 3
    /\ query[2] \notin Range(data_for_table)

\* grid cells whose geometry intersects the area
IntersectingCells ==
    {i \in 1..Len(satellite_grid) :
        \E pt \in satellite_grid[i].geometry : pt \in input_shapefile}

\* z is name with every underscore replaced by "0" and nothing else changed
IsTransformed(name, z) ==
    /\ Len(z) = Len(name)
    /\ \A k \in 1..Len(name) : z[k] = IF name[k] = "_" THEN "0" ELSE name[k]

\* get_tile_list has returned
TilesComputed == pc \notin {"landsat_explorer_login", "search", "get_tile_list"}

\* C16: get_tile_list returns exactly the identifiers of the cells that
\* intersect the area, each the cell's Name with every underscore replaced
\* by 0; it is empty iff no cell intersects.
C16_TileList ==
    TilesComputed =>
        /\ \A z \in 1..Len(zones) :
              \E i \in IntersectingCells : IsTransformed(satellite_grid[i].Name, zones[z])
        /\ \A i \in IntersectingCells :
              \E z \in 1..Len(zones) : IsTransformed(satellite_grid[i].Name, zones[z])
        /\ Len(zones) = Cardinality(IntersectingCells)
        /\ (zones = <<>>) <=> (IntersectingCells = {})

\* C16 witness: two cells intersect, one of them with a seven-character name
C16_Witness ==
    /\ pc = "filter"
    /\ Len(zones) = 2
    /\ \E z \in 1..Len(zones) : Len(zones[z]) = 7
    /\ Cardinality(IntersectingCells) < Len(satellite_grid)

\* C17: for an empty area of interest get_tile_list fails instead of
\* returning a (necessarily empty) tile list.
C17_EmptyAreaFails ==
    input_shapefile = {} =>
        /\ pc # "filter"
        /\ pc = "end" => outcome = "raised"

\* C18: no step of a run changes the caller's verified_tiles, on any path
\* and over several runs (the shared default list included).
C18_VerifiedUntouched ==
    [][verified_tiles' = verified_tiles]_vars

\* C18 witness: a second run with the default (empty) list has ended after
\* extracting an item
C18_Witness ==
    /\ run = 2
    /\ pc = "end"
    /\ verified_tiles = {}
    /\ \E p \in 1..Len(hist) : FinalStatus(p) = "extracted"

\* C19: an item is reported in_storage only if storage holds a complete
\* download of it: not when its directory is what a failed extraction of an
\* earlier run left behind.
C19_InStorageOnlyIfComplete ==
    \A p \in 1..Len(hist) :
        FinalStatus(p) = "in_storage" =>
            ~(\E r \in 1..(run - 1) : <<data_for_table[p], r>> \in partial)

\* C20: an extracted item's directory is in storage and its archive is not;
\* the downloaded archive stays until the extraction has succeeded.
C20_ExtractedDirNoArchive ==
    /\ \A p \in 1..Len(hist) :
          FinalStatus(p) = "extracted" =>
              (data_for_table[p] \in dirs /\ data_for_table[p] \notin tars)
    /\ pc = "extract" => title \in tars
    /\ (pc = "except" /\ "extract" \in failed) => title \in tars

\* C20 witness: the run returned with one item extracted and another whose
\* extraction failed
C20_Witness ==
    /\ ReturnedAfterLoop
    /\ \E p, q \in 1..Len(hist) :
          /\ FinalStatus(p) = "extracted"
          /\ FinalStatus(q) = "error"
          /\ data_for_table[q] \in tars

\* threads that are inside download_landsat_images
RunningThreads == {i \in 1..Len(threads) : threads[i].pc \in {"search", "loop"}}

\* C14: whatever the presses of the Download button, at most one pipeline
\* run executes at a time, and no two runs work on the same storage
\* directory at once.
C14_SingleRun ==
    /\ \A i, j \in 1..Len(threads) :
          (i # j /\ threads[i].pc = "loop" /\ threads[j].pc = "loop")
              => threads[i].dir # threads[j].dir
    /\ Cardinality(RunningThreads) <= 1

\* C21: whenever the probe/download of an item that is not in storage
\* begins, and until its download has acted, the storage directory holds
\* no archive display_id.tar: a stale archive of that name was deleted
\* before any network activity for the item.
C21_StaleArchiveDeleted ==
    pc \in {"probe", "start_download", "download"} =>
        (title \notin tars /\ dlCount = 0)

\* an item whose stale archive was present and removed is about to be
\* probed for the first time
C21_Witness ==
    /\ pc = "probe"
    /\ staleRemoved
    /\ probed = <<>>
    /\ dlCount = 0
    /\ title \notin tars
    /\ title \notin dirs

\* C22: after any slider movements and entry submissions the cloud cover
\* is an integer in 0..100, also the value handed to the query; submitting
\* an integer v sets it to v clamped to 0..100, and submitting text that is
\* not an integer leaves it unchanged.
C22_CloudCoverRange ==
    /\ progress \in 0..100
    /\ \A i \in 1..Len(threads) :
          threads[i].pc \in {"search", "loop"} => threads[i].cloud \in 0..100
    /\ (submitted.done /\ submitted.int) =>
          progress = (IF submitted.v < 0 THEN 0
                      ELSE IF submitted.v > 100 THEN 100 ELSE submitted.v)
    /\ (submitted.done /\ ~submitted.int) => progress = submitted.before

\* 150 was submitted over a smaller value and was clamped, and a run took
\* the clamped value
C22_Witness ==
    /\ submitted.done
    /\ submitted.int
    /\ submitted.v > 100
    /\ submitted.before < 100
    /\ progress = 100
    /\ \E i \in 1..Len(threads) :
          threads[i].pc = "search" /\ threads[i].cloud = 100

\* the four inputs of a press are present
AllPresent ==
    /\ username
    /\ password
    /\ (shapefile # "None" \/ geojsonfile # "None")
    /\ save_dir \in Directories

\* C23: a press of the Download button enters download_landsat_images
\* (and so makes any network call) only when a username, a password, a
\* loaded geometry and a selected directory are all present; when one is
\* missing the press ends at its checks, with the error printed and no
\* network call.
C23_PressNeedsAllInputs ==
    [][\A i \in 1..Len(threads) :
          /\ (threads[i].pc # "search" /\ threads'[i].pc = "search") =>
                (threads[i].pc = "checks" /\ AllPresent)
          /\ (threads[i].pc # "loop" /\ threads'[i].pc = "loop") =>
                threads[i].pc = "search"
          /\ (threads[i].pc = "checks" /\ threads'[i].pc # "checks"
                 /\ ~AllPresent) =>
                threads'[i].pc = "done"]_vars

\* one press went into the pipeline and another press ended at its checks
C23_Witness ==
    \E i, j \in 1..Len(threads) :
        /\ threads[i].pc = "search"
        /\ threads[i].dir \in Directories
        /\ threads[j].pc = "done"
        /\ threads[j].dir = ""

\* C24: after any sequence of open_shapefile and open_geojsonfile events,
\* cancelled dialogs included, at most one of the two stored geometries is
\* set, and get_shapefile returns the geometry of the most recent
\* successful open, or raises when none has been loaded.
C24_OneGeometry ==
    /\ ~(shapefile # "None" /\ geojsonfile # "None")
    /\ loaded.kind = "none" =>
          get_shapefile(shapefile, geojsonfile) = "raise"
    /\ loaded.kind = "shp" =>
          (shapefile = loaded.file
           /\ get_shapefile(shapefile, geojsonfile) = loaded.file)
    /\ loaded.kind = "geojson" =>
          (geojsonfile = loaded.file
           /\ get_shapefile(shapefile, geojsonfile) = loaded.file)

\* a GeoJSON file was opened after a shapefile and is what is returned
C24_Witness ==
    /\ loaded.kind = "geojson"
    /\ loaded.prev = "shp"
    /\ shapefile = "None"
    /\ get_shapefile(shapefile, geojsonfile) = loaded.file

====
